---- MODULE Spec2Model ----
(***************************************************************************)
(* A model of lambda.py: the term classes Variable, Application and        *)
(* Function with their operations (search, substitute, step, is_eta_equiv, *)
(* unpack_saved), the lexer and the stack parser.                          *)
(*                                                                         *)
(* Python values are records tagged by `kind`:                             *)
(*   Variable(name), Application(left, right), Function(arg, body),        *)
(*   None, and str (a raw token on the parser stack or an error message).  *)
(* A pure method is an operator computed as the method computes it; each   *)
(* specification draws the method's inputs in Init and applies it in an    *)
(* action.                                                                 *)
(***************************************************************************)
EXTENDS Integers, Sequences, FiniteSets, TLC

VARIABLES pc, term, find, replace, other, saved, var_dict, string, result, iter

vars == <<pc, term, find, replace, other, saved, var_dict, string, result, iter>>

(***************************************************************************)
(* Bounds of the model.                                                    *)
(***************************************************************************)
\* largest number of nodes of a receiver term
MaxSize == 4
\* largest number of nodes of the replacement term of substitute
MaxReplSize == 2

\* a tree given to the run loop has at most MaxStepSize + 1 nodes, or is the
\* application of two trees of at most MaxStepSize nodes each
MaxStepSize == 4
\* the iteration limit of the run loop (1000 by default, set by setiter)
MaxIters == 3

\* largest number of nodes of a term compared by is_eta_equiv
MaxEquivSize == 4
\* largest number of nodes of a value of the saved environment
MaxSavedSize == 1

\* largest number of words of a command line
MaxWords == 5
\* largest number of words before, of parameters of, and of words after a
\* lambda of several parameters
MaxPrefix == 1
MaxParams == 3
MaxSuffix == 2

\* variable names of the generated terms; y' is what renaming y produces
Names == {"x", "y", "y'"}
\* variable names of the trees given to the run loop
StepNames == {"x", "y"}
\* variable names of the terms compared by is_eta_equiv
EquivNames == {"x", "y"}
\* variable names of the terms given to unpack_saved, the keys of the saved
\* environment and the variable names of its values
UnpackNames == {"x", "y", "a"}
SavedValueNames == {"a", "y"}

(***************************************************************************)
(* Values.                                                                 *)
(***************************************************************************)
None == [kind |-> "None"]

Variable(name) == [kind |-> "Variable", name |-> name]

Application(left, right) == [kind |-> "Application", left |-> left, right |-> right]

Function(arg, body) == [kind |-> "Function", arg |-> arg, body |-> body]

\* the terms over `names` with exactly n nodes
RECURSIVE TermsOfSize(_, _)
TermsOfSize(names, n) ==
    IF n = 1 THEN {Variable(x) : x \in names}
    ELSE {Function(Variable(a), b) : a \in names, b \in TermsOfSize(names, n - 1)}
         \cup UNION {{Application(l, r) : l \in TermsOfSize(names, i),
                                          r \in TermsOfSize(names, n - 1 - i)}
                     : i \in 1..(n - 2)}

TermsUpTo(names, n) == UNION {TermsOfSize(names, i) : i \in 1..n}

\* the subterm of t at a path of "left" / "right" / "body" moves
RECURSIVE subterm(_, _)
subterm(t, p) ==
    IF p = <<>> THEN t
    ELSE IF Head(p) = "left" THEN subterm(t.left, Tail(p))
    ELSE IF Head(p) = "right" THEN subterm(t.right, Tail(p))
    ELSE subterm(t.body, Tail(p))

SavedKeys == {Variable("x"), Variable("y")}

(***************************************************************************)
(* search: does var occur free in self                                     *)
(***************************************************************************)
RECURSIVE search(_, _)
search(self, var) ==
    CASE self.kind = "Variable" -> self = var
      [] self.kind = "Application" -> search(self.left, var) \/ search(self.right, var)
      [] self.kind = "Function" -> self.arg # var /\ search(self.body, var)

(***************************************************************************)
(* substitute                                                              *)
(***************************************************************************)
\* a mutation of fresh_arg: the parameter is never renamed
fresh_arg_keep(arg, repl) == arg

\* the loop of Function.substitute: prime the name while it is free in repl
RECURSIVE fresh_arg(_, _)
fresh_arg(arg, repl) ==
    IF search(repl, arg) THEN fresh_arg(Variable(arg.name \o "'"), repl) ELSE arg

RECURSIVE substitute(_, _, _)
substitute(self, fnd, repl) ==
    CASE self.kind = "Variable" -> IF self = fnd THEN repl ELSE self
      [] self.kind = "Application" ->
            Application(substitute(self.left, fnd, repl), substitute(self.right, fnd, repl))
      [] self.kind = "Function" ->
            IF self.arg = fnd THEN self
            ELSE LET arg == fresh_arg(self.arg, repl)
                     body == IF arg # self.arg THEN substitute(self.body, self.arg, arg)
                             ELSE self.body
                 IN Function(arg, substitute(body, fnd, repl))

\* the paths, in substitute(self, fnd, repl), of the places where the call
\* returned repl for a Variable equal to fnd (the inserted copies of repl)
RECURSIVE inserted(_, _, _)
inserted(self, fnd, repl) ==
    CASE self.kind = "Variable" -> IF self = fnd THEN {<<>>} ELSE {}
      [] self.kind = "Application" ->
            {<<"left">> \o p : p \in inserted(self.left, fnd, repl)}
            \cup {<<"right">> \o p : p \in inserted(self.right, fnd, repl)}
      [] self.kind = "Function" ->
            IF self.arg = fnd THEN {}
            ELSE LET arg == fresh_arg(self.arg, repl)
                     body == IF arg # self.arg THEN substitute(self.body, self.arg, arg)
                             ELSE self.body
                 IN {<<"body">> \o p : p \in inserted(body, fnd, repl)}

(***************************************************************************)
(* Specification of substitute: the inputs are drawn in Init.              *)
(***************************************************************************)
InitSubst ==
    /\ pc = "substitute"
    /\ term \in TermsUpTo(Names, MaxSize)
    /\ find \in {Variable(x) : x \in Names}
    /\ replace \in TermsUpTo(Names, MaxReplSize)
    /\ other = None
    /\ saved = <<>>
    /\ var_dict = <<>>
    /\ string = <<>>
    /\ result = None
    /\ iter = 0

DoSubstitute ==
    /\ pc = "substitute"
    /\ result' = substitute(term, find, replace)
    /\ pc' = "done"
    /\ UNCHANGED <<term, find, replace, other, saved, var_dict, string, iter>>

NextSubst == DoSubstitute

SpecSubst == InitSubst /\ [][NextSubst]_vars

(***************************************************************************)
(* Nameless form of a term: a bound occurrence is the number of binders    *)
(* between it and its binder, a free occurrence keeps its name.  Two terms *)
(* are alpha-equivalent iff their nameless forms are equal.                *)
(***************************************************************************)
RECURSIVE Nameless(_, _)
Nameless(t, ctx) ==
    CASE t.kind = "Variable" ->
            IF \E i \in 1..Len(ctx) : ctx[i] = t.name
            THEN [kind |-> "Bound",
                  idx |-> CHOOSE i \in 1..Len(ctx) :
                             ctx[i] = t.name /\ \A j \in 1..(i - 1) : ctx[j] # t.name]
            ELSE [kind |-> "Free", name |-> t.name]
      [] t.kind = "Application" ->
            [kind |-> "App", left |-> Nameless(t.left, ctx), right |-> Nameless(t.right, ctx)]
      [] t.kind = "Function" ->
            [kind |-> "Lam", body |-> Nameless(t.body, <<t.arg.name>> \o ctx)]

AlphaEquivalent(a, b) == Nameless(a, <<>>) = Nameless(b, <<>>)

\* textbook m[x := r] on nameless forms; r is the nameless form of a whole
\* term, so it has no index pointing outside itself and needs no shifting
RECURSIVE NamelessSubst(_, _, _)
NamelessSubst(m, x, r) ==
    CASE m.kind = "Free" -> IF m.name = x THEN r ELSE m
      [] m.kind = "Bound" -> m
      [] m.kind = "App" ->
            [kind |-> "App", left |-> NamelessSubst(m.left, x, r),
                             right |-> NamelessSubst(m.right, x, r)]
      [] m.kind = "Lam" -> [kind |-> "Lam", body |-> NamelessSubst(m.body, x, r)]

(***************************************************************************)
(* Claims about substitute.                                                *)
(***************************************************************************)
\* C1: substitute captures no free variable of the replacement: every place
\* where substitute inserted the replacement holds the replacement, and no
\* Function of the result enclosing that place has a parameter that occurs
\* free in the replacement.
C1_NoCapture ==
    pc = "done" =>
        \A p \in inserted(term, find, replace) :
            /\ subterm(result, p) = replace
            /\ \A i \in 0..(Len(p) - 1) :
                   LET node == subterm(result, SubSeq(p, 1, i))
                   IN node.kind = "Function" => ~search(replace, node.arg)

\* a copy of the replacement was inserted under a Function whose parameter
\* occurred free in the replacement and was therefore renamed
C1_Witness ==
    /\ pc = "done"
    /\ term.kind = "Function"
    /\ search(replace, term.arg)
    /\ result.arg # term.arg
    /\ \E p \in inserted(term, find, replace) : Len(p) > 0

\* C2: when Function.substitute renames the parameter, the fresh parameter
\* is not free in the replacement and differs from the substituted name.
C2_FreshParameterSafe ==
    (pc = "done" /\ term.kind = "Function" /\ term.arg # find /\ result.arg # term.arg)
        => (~search(replace, result.arg) /\ result.arg # find)

\* C9: substitute agrees, up to alpha-equivalence, with the textbook
\* capture-avoiding substitution term[find := replace].
C9_AgreesWithTextbook ==
    pc = "done" =>
        Nameless(result, <<>>)
            = NamelessSubst(Nameless(term, <<>>), find.name, Nameless(replace, <<>>))

(***************************************************************************)
(* step: one beta reduction, and the loop of the driver that repeats it.   *)
(***************************************************************************)
\* a mutation of step: the argument side is run before the function side
RECURSIVE step_right_first(_)
step_right_first(self) ==
    CASE self.kind = "Variable" -> <<self, FALSE>>
      [] self.kind = "Application" ->
            IF self.left.kind = "Function"
            THEN <<substitute(self.left.body, self.left.arg, self.right), TRUE>>
            ELSE LET r == step_right_first(self.right)
                 IN IF r[2] THEN <<Application(self.left, r[1]), TRUE>>
                    ELSE LET l == step_right_first(self.left)
                         IN <<Application(l[1], r[1]), l[2]>>
      [] self.kind = "Function" ->
            LET b == step_right_first(self.body)
            IN <<Function(self.arg, b[1]), b[2]>>

\* the pair (tree, changed) that step returns
RECURSIVE step(_)
step(self) ==
    CASE self.kind = "Variable" -> <<self, FALSE>>
      [] self.kind = "Application" ->
            IF self.left.kind = "Function"
            THEN <<substitute(self.left.body, self.left.arg, self.right), TRUE>>
            ELSE LET l == step(self.left)
                 IN IF l[2] THEN <<Application(l[1], self.right), TRUE>>
                    ELSE LET r == step(self.right)
                         IN <<Application(l[1], r[1]), r[2]>>
      [] self.kind = "Function" ->
            LET b == step(self.body)
            IN <<Function(self.arg, b[1]), b[2]>>

StepTrees ==
    TermsUpTo(StepNames, MaxStepSize + 1)
    \cup {Application(l, r) : l \in TermsUpTo(StepNames, MaxStepSize),
                              r \in TermsUpTo(StepNames, MaxStepSize)}

\* The driver's loop in run mode: result is the pair (tree, running), other
\* is the tree the last call of step was made on.
InitStep ==
    /\ pc = "run"
    /\ term \in StepTrees
    /\ result = <<term, TRUE>>
    /\ iter = 0
    /\ other = None
    /\ find = None
    /\ replace = None
    /\ saved = <<>>
    /\ var_dict = <<>>
    /\ string = <<>>

DoStep ==
    /\ pc = "run"
    /\ result[2]
    /\ iter < MaxIters
    /\ iter' = iter + 1
    /\ other' = result[1]
    /\ result' = step(result[1])
    /\ UNCHANGED <<pc, term, find, replace, saved, var_dict, string>>

NextStep == DoStep

SpecStep == InitStep /\ [][NextStep]_vars

\* the paths of all subterms of t
RECURSIVE Paths(_)
Paths(t) ==
    CASE t.kind = "Variable" -> {<<>>}
      [] t.kind = "Application" ->
            {<<>>} \cup {<<"left">> \o p : p \in Paths(t.left)}
                   \cup {<<"right">> \o p : p \in Paths(t.right)}
      [] t.kind = "Function" -> {<<>>} \cup {<<"body">> \o p : p \in Paths(t.body)}

IsRedex(t) == t.kind = "Application" /\ t.left.kind = "Function"

RedexPaths(t) == {p \in Paths(t) : IsRedex(subterm(t, p))}

\* p comes before q in the leftmost-outermost order: p encloses q, or p is
\* to the left of q where they part
Before(p, q) ==
    \/ Len(p) < Len(q) /\ SubSeq(q, 1, Len(p)) = p
    \/ \E i \in 1..Len(p) :
          /\ i <= Len(q)
          /\ SubSeq(p, 1, i - 1) = SubSeq(q, 1, i - 1)
          /\ p[i] = "left"
          /\ q[i] = "right"

LeftmostOutermost(t) ==
    CHOOSE p \in RedexPaths(t) : \A q \in RedexPaths(t) \ {p} : Before(p, q)

\* t with the subterm at path p replaced by new
RECURSIVE ReplaceAt(_, _, _)
ReplaceAt(t, p, new) ==
    IF p = <<>> THEN new
    ELSE IF Head(p) = "left" THEN Application(ReplaceAt(t.left, Tail(p), new), t.right)
    ELSE IF Head(p) = "right" THEN Application(t.left, ReplaceAt(t.right, Tail(p), new))
    ELSE Function(t.arg, ReplaceAt(t.body, Tail(p), new))

\* C3: step is one normal-order beta step: on a tree with a redex it returns
\* changed = True and the tree with only its leftmost-outermost redex
\* (\p.B) A replaced by B.substitute(p, A); on a tree with no redex it
\* returns changed = False.
C3_NormalOrderStep ==
    (pc = "run" /\ other # None) =>
        IF RedexPaths(other) = {}
        THEN result[2] = FALSE
        ELSE LET p == LeftmostOutermost(other)
                 redex == subterm(other, p)
             IN result = <<ReplaceAt(other, p,
                              substitute(redex.left.body, redex.left.arg, redex.right)), TRUE>>

\* step ran on an application that has no redex at its top and a redex on
\* each side, and reduced the one on the function side
C3_Witness ==
    /\ pc = "run"
    /\ other # None
    /\ other.kind = "Application"
    /\ ~IsRedex(other)
    /\ RedexPaths(other.left) # {}
    /\ RedexPaths(other.right) # {}
    /\ result[2]
    /\ result[1].right = other.right
    /\ result[1].left # other.left

(***************************************************************************)
(* is_eta_equiv.  The correspondence var_dict is a Python dict, a mutable  *)
(* object shared with the caller (and, for the default argument, between   *)
(* calls), so each method returns the pair (answer, the caller's dict      *)
(* after the call).                                                        *)
(***************************************************************************)
\* dict.copy() followed by the assignment copy[key] = value
copy_and_set(d, key, value) ==
    [k \in DOMAIN d \cup {key} |-> IF k = key THEN value ELSE d[k]]

\* a mutation of Variable.is_eta_equiv: the correspondence is not consulted
Variable_is_eta_equiv_by_name(self, oth, d) ==
    <<oth.kind = "Variable" /\ self = oth, d>>

Variable_is_eta_equiv(self, oth, d) ==
    <<oth.kind = "Variable" /\ (self = oth \/ (self \in DOMAIN d /\ d[self] = oth)), d>>

RECURSIVE is_eta_equiv(_, _, _)
is_eta_equiv(self, oth, d) ==
    CASE self.kind = "Variable" -> Variable_is_eta_equiv(self, oth, d)
      [] self.kind = "Application" ->
            IF oth.kind # "Application" THEN <<FALSE, d>>
            ELSE LET l == is_eta_equiv(self.left, oth.left, d)
                 IN IF ~l[1] THEN <<FALSE, l[2]>>
                    ELSE is_eta_equiv(self.right, oth.right, l[2])
      [] self.kind = "Function" ->
            IF oth.kind # "Function" THEN <<FALSE, d>>
            ELSE IF self.arg # oth.arg
                 THEN \* the body is compared under a copy; d itself is not written
                      <<is_eta_equiv(self.body, oth.body,
                                     copy_and_set(d, self.arg, oth.arg))[1], d>>
                 ELSE \* new_var_dict is var_dict itself
                      is_eta_equiv(self.body, oth.body, d)

\* The driver's call tree.is_eta_equiv(saved[key]): var_dict is the default
\* dict of the methods.
InitEquiv ==
    /\ pc = "is_eta_equiv"
    /\ term \in TermsUpTo(EquivNames, MaxEquivSize)
    /\ other \in TermsUpTo(EquivNames, MaxEquivSize)
    /\ var_dict = <<>>
    /\ result = None
    /\ find = None
    /\ replace = None
    /\ saved = <<>>
    /\ string = <<>>
    /\ iter = 0

DoIsEtaEquiv ==
    /\ pc = "is_eta_equiv"
    /\ LET r == is_eta_equiv(term, other, var_dict)
       IN /\ result' = r[1]
          /\ var_dict' = r[2]
    /\ pc' = "done"
    /\ UNCHANGED <<term, find, replace, other, saved, string, iter>>

NextEquiv == DoIsEtaEquiv

SpecEquiv == InitEquiv /\ [][NextEquiv]_vars

\* C4: is_eta_equiv answers True only for alpha-equivalent terms.
C4_TrueOnlyIfAlphaEquivalent ==
    (pc = "done" /\ result = TRUE) => AlphaEquivalent(term, other)

\* C5: is_eta_equiv answers True for every pair of alpha-equivalent terms
\* (a term and itself, a term and a renaming of its bound variables), and
\* leaves the correspondence it was given (the default dict) as it was.
C5_AlphaInvariant ==
    pc = "done" =>
        /\ var_dict = <<>>
        /\ AlphaEquivalent(term, other) => result = TRUE

\* two different terms, alpha-equivalent by a renaming of the outer
\* parameter, were compared and found equivalent
C5_Witness ==
    /\ pc = "done"
    /\ term.kind = "Function"
    /\ other.kind = "Function"
    /\ term.arg # other.arg
    /\ search(term.body, term.arg)
    /\ AlphaEquivalent(term, other)
    /\ result = TRUE

(***************************************************************************)
(* unpack_saved.  saved is a dict from Variable to term.                   *)
(***************************************************************************)
\* a mutation of unpack_saved: a Function whose parameter is saved is not
\* left alone, its body is rewritten like any other
RECURSIVE unpack_saved_no_shadow(_, _)
unpack_saved_no_shadow(self, svd) ==
    CASE self.kind = "Variable" -> IF self \in DOMAIN svd THEN svd[self] ELSE self
      [] self.kind = "Application" ->
            Application(unpack_saved_no_shadow(self.left, svd),
                        unpack_saved_no_shadow(self.right, svd))
      [] self.kind = "Function" ->
            Function(self.arg, unpack_saved_no_shadow(self.body, svd))

RECURSIVE unpack_saved(_, _)
unpack_saved(self, svd) ==
    CASE self.kind = "Variable" -> IF self \in DOMAIN svd THEN svd[self] ELSE self
      [] self.kind = "Application" ->
            Application(unpack_saved(self.left, svd), unpack_saved(self.right, svd))
      [] self.kind = "Function" ->
            IF self.arg \in DOMAIN svd THEN self
            ELSE Function(self.arg, unpack_saved(self.body, svd))

SavedValues == TermsUpTo(SavedValueNames, MaxSavedSize)

Environments == UNION {[keys -> SavedValues] : keys \in SUBSET SavedKeys}

InitUnpack ==
    /\ pc = "unpack_saved"
    /\ term \in TermsUpTo(UnpackNames, MaxSize)
    /\ saved \in Environments
    /\ result = None
    /\ other = None
    /\ find = None
    /\ replace = None
    /\ var_dict = <<>>
    /\ string = <<>>
    /\ iter = 0

DoUnpackSaved ==
    /\ pc = "unpack_saved"
    /\ result' = unpack_saved(term, saved)
    /\ pc' = "done"
    /\ UNCHANGED <<term, find, replace, other, saved, var_dict, string, iter>>

NextUnpack == DoUnpackSaved

SpecUnpack == InitUnpack /\ [][NextUnpack]_vars

\* the proper prefixes of a path
Above(p) == {SubSeq(p, 1, i) : i \in 0..(Len(p) - 1)}

\* the Variable at path p of t is a free occurrence in t
FreeAt(t, p) ==
    \A q \in Above(p) :
        subterm(t, q).kind = "Function" => subterm(t, q).arg # subterm(t, p)

\* the place at path p of t lies under a Function whose parameter is saved
Shadowed(t, p, svd) ==
    \E q \in Above(p) :
        subterm(t, q).kind = "Function" /\ subterm(t, q).arg \in DOMAIN svd

\* C6 as stated: every free occurrence of a saved variable is replaced by
\* its stored value, and no occurrence under a Function rebinding that name.
C6_EveryFreeOccurrence ==
    pc = "done" =>
        \A p \in Paths(term) :
            LET v == subterm(term, p)
            IN (v.kind = "Variable" /\ v \in DOMAIN saved) =>
                  /\ p \in Paths(result)
                  /\ subterm(result, p) = IF FreeAt(term, p) THEN saved[v] ELSE v

\* C6 amended: an occurrence of a saved variable is replaced by its stored
\* value when it lies under no Function whose parameter is a saved variable
\* (whichever saved variable), and no other occurrence of a variable is
\* replaced.
C6_UnshadowedOccurrences ==
    pc = "done" =>
        \A p \in Paths(term) :
            LET v == subterm(term, p)
            IN v.kind = "Variable" =>
                  /\ p \in Paths(result)
                  /\ subterm(result, p)
                        = IF v \in DOMAIN saved /\ ~Shadowed(term, p, saved)
                          THEN saved[v] ELSE v

\* unpack_saved replaced one occurrence of a saved variable and left alone
\* a free occurrence of a saved variable under a Function whose parameter is
\* another saved variable
C6_Witness ==
    /\ pc = "done"
    /\ \E p \in Paths(term) :
          LET v == subterm(term, p)
          IN /\ v.kind = "Variable"
             /\ v \in DOMAIN saved
             /\ saved[v] # v
             /\ FreeAt(term, p)
             /\ Shadowed(term, p, saved)
             /\ subterm(result, p) = v
    /\ \E p \in Paths(term) :
          LET v == subterm(term, p)
          IN /\ v.kind = "Variable"
             /\ v \in DOMAIN saved
             /\ saved[v] # v
             /\ subterm(result, p) = saved[v]

(***************************************************************************)
(* __repr__ of the values an error message can quote.                      *)
(***************************************************************************)
RECURSIVE py_repr(_), repr_args(_), repr_rest(_)
\* Function.__repr__ is 'λ' + repr_args + '.' + repr_rest: when the body is
\* a Function, the text of the body is split at its first '.', the part
\* before it (less the leading λ) is appended to the parameter and the part
\* after it is kept (no name holds a '.', the lexer splits there)
repr_args(self) ==
    IF self.body.kind = "Function"
    THEN self.arg.name \o " " \o repr_args(self.body)
    ELSE self.arg.name

repr_rest(self) ==
    IF self.body.kind = "Function" THEN repr_rest(self.body) ELSE py_repr(self.body)

py_repr(self) ==
    CASE self.kind = "None" -> "None"
      [] self.kind = "str" -> "'" \o self.s \o "'"
      [] self.kind = "Variable" -> self.name
      [] self.kind = "Application" ->
            (IF self.left.kind = "Function" THEN "(" \o py_repr(self.left) \o ")"
             ELSE py_repr(self.left))
            \o " " \o
            (IF self.right.kind = "Variable" THEN py_repr(self.right)
             ELSE "(" \o py_repr(self.right) \o ")")
      [] self.kind = "Function" -> "λ" \o repr_args(self) \o "." \o repr_rest(self)

(***************************************************************************)
(* lex: a string is a sequence of characters, a token is a str.            *)
(***************************************************************************)
SpecialChars == {"(", ")", ".", "\\", "λ", "="}

\* `if token != '': yield token`
flush(out, token) == IF token # "" THEN Append(out, token) ELSE out

RECURSIVE lex_from(_, _, _, _)
lex_from(chars, i, token, out) ==
    IF i > Len(chars) THEN flush(out, token)
    ELSE LET c == chars[i]
         IN IF c \in SpecialChars THEN lex_from(chars, i + 1, "", Append(flush(out, token), c))
            ELSE IF c \in {" ", "\t"} THEN lex_from(chars, i + 1, "", flush(out, token))
            ELSE IF c = ";" THEN flush(out, token)
            ELSE lex_from(chars, i + 1, token \o c, out)

lex(chars) == lex_from(chars, 1, "", <<>>)

(***************************************************************************)
(* The parser.  The stack holds raw tokens (str), terms and None.          *)
(***************************************************************************)
Str(s) == [kind |-> "str", s |-> s]

LAMBDA_MODE_NONE == 0
LAMBDA_MODE_RUN == 1
LAMBDA_MODE_SET == 2
LAMBDA_MODE_STEP == 4
LAMBDA_MODE_ERR == 8

\* mode & bit, for a one-bit constant
HasBit(mode, bit) == (mode \div bit) % 2 = 1

\* mode | bit
SetBit(mode, bit) == IF HasBit(mode, bit) THEN mode ELSE mode + bit

\* the stack without its last element (list.pop)
pop(stack) == SubSeq(stack, 1, Len(stack) - 1)

\* the loop of build_application over stack[start_index:]
RECURSIVE build_from(_, _, _)
build_from(stack, k, built) ==
    IF k > Len(stack) THEN built
    ELSE build_from(stack, k + 1,
                    IF built = None THEN stack[k] ELSE Application(built, stack[k]))

\* build_application returns the pair (built, the stack after the del);
\* start_index counts from 0
build_application(stack, start_index) ==
    <<build_from(stack, start_index + 1, None), SubSeq(stack, 1, start_index)>>

IsLambda(expr) == expr = Str("\\") \/ expr = Str("λ")

\* a mutation of close_lambda: the marker is left on the stack
close_lambda_keep_marker(stack, built) == Append(stack, built)

\* `stack.pop(); stack.append(built)`: the finished Function takes the place
\* of its marker
close_lambda(stack, built) == Append(pop(stack), built)

\* the loop of apply_stack from index i (counted from 0) downwards, and the
\* code after the loop; returns the pair (returned value, the stack after)
RECURSIVE apply_from(_, _, _, _)
apply_from(stack, i, built, checking_lambda_args) ==
    IF i < 0
    THEN IF checking_lambda_args THEN <<Str("Syntax error: unexpected '.'"), stack>>
         ELSE IF built = None THEN build_application(stack, 0)
         ELSE <<built, stack>>
    ELSE
    LET expr == stack[i + 1]
    IN IF checking_lambda_args
       THEN IF expr.kind = "Variable"
            THEN apply_from(pop(stack), i - 1, Function(stack[Len(stack)], built), TRUE)
            ELSE IF IsLambda(expr)
            THEN IF built.kind # "Function"
                 THEN <<Str("Syntax error: '" \o expr.s \o "' followed by '.'"), stack>>
                 ELSE apply_from(close_lambda(stack, built), i - 1, None, FALSE)
            ELSE <<Str("Syntax error: invalid argument " \o py_repr(expr)), stack>>
       ELSE IF expr = Str("(") THEN build_application(stack, i + 1)
       ELSE IF expr = Str(".")
            THEN LET b == build_application(stack, i + 1)
                 IN apply_from(pop(b[2]), i - 1, b[1], TRUE)
       ELSE IF IsLambda(expr) THEN <<Str("Syntax error: unexpected '" \o expr.s \o "'"), stack>>
       ELSE apply_from(stack, i - 1, built, checking_lambda_args)

apply_stack(stack) == apply_from(stack, Len(stack) - 1, None, FALSE)

\* the code of parse after its loop
parse_end(stack, mode, var_name) ==
    LET a == apply_stack(stack)
        built == a[1]
    IN IF Len(a[2]) > 0 /\ built.kind # "str"
       THEN <<Str("Syntax error: unmatched '('"), LAMBDA_MODE_ERR>>
       ELSE IF built.kind = "str" THEN <<built, LAMBDA_MODE_ERR>>
       ELSE IF HasBit(mode, LAMBDA_MODE_SET)
            THEN IF built = None
                 THEN <<Str("Syntax error: unexpected '='"), LAMBDA_MODE_ERR>>
                 ELSE <<Application(var_name, built), mode>>
       ELSE <<built, mode>>

\* the loop of parse from the k-th token on; `token in '('` and
\* `token in '\\λ.'` are substring tests, which the one-character tokens of
\* lex pass exactly when they are one of the characters
RECURSIVE parse_from(_, _, _, _, _)
parse_from(tokens, k, stack, mode, var_name) ==
    IF k > Len(tokens) THEN parse_end(stack, mode, var_name)
    ELSE
    LET token == tokens[k]
    IN IF token = "(" THEN parse_from(tokens, k + 1, Append(stack, Str(token)), mode, var_name)
       ELSE IF token \in {"\\", "λ", "."}
            THEN parse_from(tokens, k + 1, Append(stack, Str(token)), mode, var_name)
       ELSE IF token = ")"
            THEN LET a == apply_stack(stack)
                 IN IF a[1].kind = "str" THEN <<a[1], LAMBDA_MODE_ERR>>
                    ELSE IF Len(a[2]) = 0
                         THEN <<Str("Syntax error: unexpected ')'"), LAMBDA_MODE_ERR>>
                    ELSE parse_from(tokens, k + 1, Append(pop(a[2]), a[1]), mode, var_name)
       ELSE IF token = "run"
            THEN IF Len(stack) = 0 /\ ~HasBit(mode, LAMBDA_MODE_STEP)
                 THEN parse_from(tokens, k + 1, stack, SetBit(mode, LAMBDA_MODE_RUN), var_name)
                 ELSE <<Str("Syntax error: unexpected 'run'"), LAMBDA_MODE_ERR>>
       ELSE IF token = "step"
            THEN IF Len(stack) = 0 /\ ~HasBit(mode, LAMBDA_MODE_RUN)
                 THEN parse_from(tokens, k + 1, stack, SetBit(mode, LAMBDA_MODE_STEP), var_name)
                 ELSE <<Str("Syntax error: unexpected 'run'"), LAMBDA_MODE_ERR>>
       ELSE IF token = "="
            THEN IF Len(stack) = 1 /\ stack[1].kind = "Variable"
                 THEN parse_from(tokens, k + 1, pop(stack), SetBit(mode, LAMBDA_MODE_SET),
                                 stack[Len(stack)])
                 ELSE <<Str("Syntax error: unexpected '='"), LAMBDA_MODE_ERR>>
       ELSE parse_from(tokens, k + 1, Append(stack, Variable(token)), mode, var_name)

\* parse returns the pair (tree or message, mode)
parse(chars) == parse_from(lex(chars), 1, <<>>, LAMBDA_MODE_NONE, None)

(***************************************************************************)
(* Specification of parse: a line is typed and parsed.  The lines are the  *)
(* texts of word sequences, with a blank only where two symbols meet.      *)
(***************************************************************************)
SeqsUpTo(S, n) == UNION {[1..k -> S] : k \in 0..n}

SeqsBetween(S, m, n) == UNION {[1..k -> S] : k \in m..n}

IsSymbol(word) == word[1] \notin SpecialChars

RECURSIVE text_of(_)
text_of(words) ==
    IF words = <<>> THEN <<>>
    ELSE IF Len(words) = 1 THEN words[1]
    ELSE words[1]
         \o (IF IsSymbol(words[1]) /\ IsSymbol(words[2]) THEN <<" ">> ELSE <<>>)
         \o text_of(Tail(words))

\* the words of command lines and malformed lines
CommandWords ==
    {<<"(">>, <<")">>, <<"\\">>, <<".">>, <<"=">>, <<"x">>,
     <<"r", "u", "n">>, <<"s", "t", "e", "p">>}

\* the words of terms
VarWords == {<<"x">>, <<"y">>}

TermWords == VarWords \cup {<<"(">>, <<")">>, <<"\\">>, <<".">>}

\* the words that come before a lambda in a term
PrefixWords == {<<"(">>, <<"x">>}

\* any line of at most MaxWords command words
CommandLines == {text_of(ws) : ws \in SeqsUpTo(CommandWords, MaxWords)}

\* a lambda with several parameters, after an opening parenthesis or a
\* term and before any term words
SugarLines ==
    {text_of(pre \o <<<<"\\">>>> \o params \o <<<<".">>>> \o post) :
        pre \in SeqsUpTo(PrefixWords, MaxPrefix),
        params \in SeqsBetween(VarWords, 2, MaxParams),
        post \in SeqsUpTo(TermWords, MaxSuffix)}

InitParse ==
    /\ pc = "parse"
    /\ string \in CommandLines
    /\ result = None
    /\ term = None
    /\ other = None
    /\ find = None
    /\ replace = None
    /\ saved = <<>>
    /\ var_dict = <<>>
    /\ iter = 0

DoParse ==
    /\ pc = "parse"
    /\ result' = parse(string)
    /\ pc' = "done"
    /\ UNCHANGED <<term, find, replace, other, saved, var_dict, string, iter>>

NextParse == DoParse

SpecParse == InitParse /\ [][NextParse]_vars

\* the same, for the lines with a lambda of several parameters
InitSugar ==
    /\ pc = "parse"
    /\ string \in SugarLines
    /\ result = None
    /\ term = None
    /\ other = None
    /\ find = None
    /\ replace = None
    /\ saved = <<>>
    /\ var_dict = <<>>
    /\ iter = 0

SpecSugar == InitSugar /\ [][NextParse]_vars

\* the number of '(' of a token sequence that no later ')' closes, counted
\* over its first n tokens
RECURSIVE OpenParens(_, _)
OpenParens(tokens, n) ==
    IF n = 0 THEN 0
    ELSE LET before == OpenParens(tokens, n - 1)
         IN IF tokens[n] = "(" THEN before + 1
            ELSE IF tokens[n] = ")" /\ before > 0 THEN before - 1
            ELSE before

IsMarker(token) == token \in {"\\", "λ"}

\* the malformed token sequences of C7
Malformed(tokens) ==
    \/ \E i \in 1..Len(tokens) : tokens[i] = ")" /\ OpenParens(tokens, i - 1) = 0
    \/ OpenParens(tokens, Len(tokens)) > 0
    \/ \E i \in 1..(Len(tokens) - 1) : IsMarker(tokens[i]) /\ tokens[i + 1] = "."
    \/ \E i \in 1..Len(tokens) :
          IsMarker(tokens[i]) /\ \A j \in (i + 1)..Len(tokens) : tokens[j] # "."
    \/ Len(tokens) > 0 /\ tokens[Len(tokens)] = "="
    \/ \E i, j \in 1..Len(tokens) : tokens[i] = "run" /\ tokens[j] = "step"

\* C7: a malformed line is reported as a value: parse returns a non-empty
\* message and exactly the ERROR mode.
C7_MalformedIsError ==
    (pc = "done" /\ Malformed(lex(string))) =>
        /\ result[1].kind = "str"
        /\ result[1].s # ""
        /\ result[2] = LAMBDA_MODE_ERR

RECURSIVE WellFormed(_)
WellFormed(t) ==
    CASE t.kind = "Variable" -> TRUE
      [] t.kind = "Application" -> WellFormed(t.left) /\ WellFormed(t.right)
      [] t.kind = "Function" -> t.arg.kind = "Variable" /\ WellFormed(t.body)
      [] OTHER -> FALSE

\* C10: a parse without the ERROR bit yields a well-formed term, or None
\* when the line has no token of a term (nothing but run or step).
C10_SuccessIsWellFormed ==
    (pc = "done" /\ ~HasBit(result[2], LAMBDA_MODE_ERR)) =>
        \/ result[1] = None /\ \A i \in 1..Len(lex(string)) : lex(string)[i] \in {"run", "step"}
        \/ WellFormed(result[1])

\* the tokens with every `λ v1 v2 ... .` rewritten to `λ v1 . λ v2 ... .`
IsVarName(token) == token \notin SpecialChars \cup {"run", "step"}

RECURSIVE DotFollowsNames(_, _)
DotFollowsNames(tokens, k) ==
    /\ k <= Len(tokens)
    /\ \/ tokens[k] = "."
       \/ IsVarName(tokens[k]) /\ DotFollowsNames(tokens, k + 1)

RECURSIVE Desugar(_)
Desugar(tokens) ==
    IF tokens = <<>> THEN <<>>
    ELSE IF /\ Len(tokens) >= 4
            /\ IsMarker(tokens[1])
            /\ IsVarName(tokens[2])
            /\ IsVarName(tokens[3])
            /\ DotFollowsNames(tokens, 4)
         THEN <<tokens[1], tokens[2], ".">> \o Desugar(<<tokens[1]>> \o SubSeq(tokens, 3, Len(tokens)))
         ELSE <<tokens[1]>> \o Desugar(Tail(tokens))

\* C8: a line with a lambda of several parameters parses to what the line
\* with the nested one-parameter lambdas parses to, tree (or message) and
\* mode.
C8_SugarIsNesting ==
    (pc = "done" /\ Desugar(lex(string)) # lex(string)) =>
        result = parse_from(Desugar(lex(string)), 1, <<>>, LAMBDA_MODE_NONE, None)

\* a line holding a lambda of several parameters, in parentheses or after
\* another term, parsed to a tree with the nested Functions
C8_Witness ==
    /\ pc = "done"
    /\ Desugar(lex(string)) # lex(string)
    /\ lex(string)[1] \in {"(", "x", "y"}
    /\ result[2] = LAMBDA_MODE_NONE
    /\ WellFormed(result[1])
    /\ \E p \in Paths(result[1]) :
          LET f == subterm(result[1], p)
          IN /\ f.kind = "Function"
             /\ f.body.kind = "Function"
             /\ f.arg # f.body.arg
             /\ f.body.body = f.arg
====
